---- MODULE Spec2Model ----
(***************************************************************************)
(* A model of LEI_batch.py: the GLEIF batch client (fetch_by_ids,          *)
(* search_by_names, search_by_validation_ids), the name normalizer         *)
(* (clean_legal_name) and the record flattener (safe_get, format_address,  *)
(* parse_api_record).                                                      *)
(*                                                                         *)
(* Python strings that the code inspects character by character (names,    *)
(* queries, the Search Query tag) are sequences of one-character strings.  *)
(* JSON values are tagged records: Null, Str(v), Lst(s), Dct(m).           *)
(***************************************************************************)
EXTENDS Integers, Sequences, FiniteSets, TLC

(***************************************************************************)
(* Constants of the program                                                *)
(***************************************************************************)
REQUESTS_PER_MINUTE_LIMIT == 60

\* sorted([...], key=len, reverse=True): descending length, ties in source order
LEGAL_SUFFIXES_TO_REMOVE ==
  << <<"P","R","I","V","A","T","E"," ","L","I","M","I","T","E","D">>,
     <<"C","O","R","P","O","R","A","T","I","O","N">>,
     <<"P","V","T","."," ","L","T","D",".">>,
     <<"P","."," ","L","T","D",".">>,
     <<"L","I","M","I","T","E","D">>,
     <<"P","R","I","V","A","T","E">>,
     <<"C","O","M","P","A","N","Y">>,
     <<"C","O","R","P",".">>,
     <<"P","V","T",".">>,
     <<"L","T","D",".">>,
     <<"I","N","C",".">>,
     <<"G","M","B","H">>,
     <<"S",".","A",".">>,
     <<"B",".","V",".">>,
     <<"A",".","S",".">>,
     <<"L","L","C">>,
     <<"C","O",".">>,
     <<"S","A">>,
     <<"B","V">>,
     <<"A","S">> >>

(***************************************************************************)
(* Character-level string primitives (str.upper, str.strip, str.split,     *)
(* str.join, re.sub) as the code uses them                                 *)
(***************************************************************************)
LowerLetters ==
  <<"a","b","c","d","e","f","g","h","i","j","k","l","m",
    "n","o","p","q","r","s","t","u","v","w","x","y","z">>

UpperLetters ==
  <<"A","B","C","D","E","F","G","H","I","J","K","L","M",
    "N","O","P","Q","R","S","T","U","V","W","X","Y","Z">>

Digits == {"0","1","2","3","4","5","6","7","8","9"}

Range(s) == {s[i] : i \in 1..Len(s)}

\* the characters \s matches, among those the model's strings use
Whitespace == {" ", "\t"}

\* the characters \w matches
WordChars == Range(LowerLetters) \cup Range(UpperLetters) \cup Digits \cup {"_"}

IsWordChar(c) == c \in WordChars

LowerSet == Range(LowerLetters)

UpperChar(c) ==
  IF c \in LowerSet
    THEN UpperLetters[CHOOSE i \in 1..Len(LowerLetters) : LowerLetters[i] = c]
    ELSE c

RECURSIVE Upper(_)
\* str.upper()
Upper(s) ==
  IF s = <<>> THEN <<>> ELSE <<UpperChar(Head(s))>> \o Upper(Tail(s))

\* re.sub(r'[.,]', '', s)  and  suffix.replace(".", "")
RemoveChars(s, cs) == SelectSeq(s, LAMBDA c : c \notin cs)

WordAt(s, k) == k >= 1 /\ k <= Len(s) /\ IsWordChar(s[k])

\* \b at the position between s[p-1] and s[p]
Boundary(s, p) == WordAt(s, p - 1) # WordAt(s, p)

\* the pattern \bw\b, w not empty, matches s at position i
MatchAt(s, w, i) ==
  /\ s[i] = w[1]
  /\ i + Len(w) - 1 <= Len(s)
  /\ Boundary(s, i)
  /\ Boundary(s, i + Len(w))
  /\ SubSeq(s, i, i + Len(w) - 1) = w

RECURSIVE ReSubWordFrom(_, _, _)
\* s from position i on, without the leftmost non-overlapping matches of w
ReSubWordFrom(s, w, i) ==
  IF \E k \in i..Len(s) : MatchAt(s, w, k)
    THEN LET m == CHOOSE k \in i..Len(s) :
                    /\ MatchAt(s, w, k)
                    /\ \A j \in i..(k - 1) : ~MatchAt(s, w, j)
         IN  SubSeq(s, i, m - 1) \o ReSubWordFrom(s, w, m + Len(w))
  ELSE SubSeq(s, i, Len(s))

\* the substitution with count=1: the leftmost match only
ReSubWord_FirstOnly(s, w) ==
  IF \E k \in 1..Len(s) : MatchAt(s, w, k)
    THEN LET m == CHOOSE k \in 1..Len(s) :
                    /\ MatchAt(s, w, k)
                    /\ \A j \in 1..(k - 1) : ~MatchAt(s, w, j)
         IN  SubSeq(s, 1, m - 1) \o SubSeq(s, m + Len(w), Len(s))
  ELSE s

\* re.sub(rf'\b{re.escape(w)}\b', '', s): s itself when nothing matches
ReSubWord(s, w) ==
  IF \E k \in 1..Len(s) : MatchAt(s, w, k) THEN ReSubWordFrom(s, w, 1) ELSE s

RECURSIVE CollapseFrom(_, _)
CollapseFrom(s, i) ==
  IF i > Len(s) THEN <<>>
  ELSE IF s[i] \in Whitespace
    THEN (IF i > 1 /\ s[i - 1] \in Whitespace THEN <<>> ELSE <<" ">>)
         \o CollapseFrom(s, i + 1)
  ELSE <<s[i]>> \o CollapseFrom(s, i + 1)

\* re.sub(r'\s+', ' ', s)
CollapseWhitespace(s) == CollapseFrom(s, 1)

RECURSIVE LStrip(_)
LStrip(s) ==
  IF s # <<>> /\ Head(s) \in Whitespace THEN LStrip(Tail(s)) ELSE s

RECURSIVE RStrip(_)
RStrip(s) ==
  IF s # <<>> /\ s[Len(s)] \in Whitespace THEN RStrip(SubSeq(s, 1, Len(s) - 1)) ELSE s

\* str.strip()
Strip(s) == RStrip(LStrip(s))

RECURSIVE SplitFrom(_, _, _)
SplitFrom(s, i, cur) ==
  IF i > Len(s) THEN (IF cur = <<>> THEN <<>> ELSE <<cur>>)
  ELSE IF s[i] \in Whitespace
    THEN (IF cur = <<>> THEN <<>> ELSE <<cur>>) \o SplitFrom(s, i + 1, <<>>)
  ELSE SplitFrom(s, i + 1, Append(cur, s[i]))

\* str.split(): the maximal runs of non-whitespace characters
Split(s) == SplitFrom(s, 1, <<>>)

RECURSIVE Join(_, _)
\* sep.join(parts)
Join(parts, sep) ==
  IF parts = <<>> THEN <<>>
  ELSE IF Len(parts) = 1 THEN parts[1]
  ELSE parts[1] \o sep \o Join(Tail(parts), sep)

Min(a, b) == IF a <= b THEN a ELSE b

(***************************************************************************)
(* clean_legal_name                                                        *)
(***************************************************************************)
RECURSIVE RemoveSuffixes(_, _)
\* for suffix in LEGAL_SUFFIXES_TO_REMOVE: name = re.sub(...)
RemoveSuffixes(name, suffixes) ==
  IF suffixes = <<>> THEN name
  ELSE RemoveSuffixes(ReSubWord(name, RemoveChars(Head(suffixes), {"."})),
                      Tail(suffixes))

clean_legal_name(name) ==
  LET upper == Upper(name)
      nopunct == RemoveChars(upper, {".", ","})
      stripped == RemoveSuffixes(nopunct, LEGAL_SUFFIXES_TO_REMOVE)
  IN  Strip(CollapseWhitespace(stripped))

(***************************************************************************)
(* JSON values: what response.json() can hold                              *)
(***************************************************************************)
Null == [t |-> "null"]

Str(v) == [t |-> "str", v |-> v]

Lst(s) == [t |-> "list", s |-> s]

Dct(m) == [t |-> "dict", m |-> m]

Num(n) == [t |-> "num", n |-> n]

EmptyDict == Dct(<<>>)

\* the sentinel, safe_get's default default
NA == Str("N/A")

\* the value ", ".join(parts) builds from its non-empty string parts, kept as
\* the sequence of the parts joined
Joined(parts) == [t |-> "joined", parts |-> parts]

\* a TypeError escaping the flattener
Raised == [t |-> "raised"]

\* key.isdigit(), for the path segments the flattener uses
IsDigitKey(key) == key \in Digits

\* bool(v) of a JSON value
Truthy(v) ==
  CASE v.t = "null" -> FALSE
    [] v.t = "str" -> v.v # ""
    [] v.t = "list" -> v.s # <<>>
    [] v.t = "dict" -> DOMAIN v.m # {}
    [] v.t = "num" -> v.n # 0
    [] OTHER -> TRUE

(***************************************************************************)
(* safe_get, format_address, parse_api_record                              *)
(***************************************************************************)
RECURSIVE SafeGetFrom(_, _, _, _)
SafeGetFrom(data, keys, i, default) ==
  IF i > Len(keys)
    THEN (IF data.t = "null" THEN default ELSE data)
  ELSE IF data.t = "dict"
    THEN IF IsDigitKey(keys[i])
           \* data[int(key)] on a dict: its keys are strings, so KeyError
           THEN default
           \* data.get(key): None when the key is absent
           ELSE SafeGetFrom(IF keys[i] \in DOMAIN data.m THEN data.m[keys[i]] ELSE Null,
                            keys, i + 1, default)
  \* a list, a string or None at this depth
  ELSE default

\* path is the dot-separated path, already split
safe_get(data, path, default) == SafeGetFrom(data, path, 1, default)

format_address(addr) ==
  IF addr.t # "dict" THEN NA
  ELSE LET parts == << safe_get(addr, <<"addressLines", "0">>, Str("")),
                       safe_get(addr, <<"city">>, Str("")),
                       safe_get(addr, <<"region">>, Str("")),
                       safe_get(addr, <<"postalCode">>, Str("")),
                       safe_get(addr, <<"country">>, Str("")) >>
           kept == SelectSeq(parts, Truthy)
       IN  IF \E i \in 1..Len(kept) : kept[i].t # "str"
             \* str.join over a non-string part: TypeError
             THEN Raised
           ELSE IF kept = <<>> THEN NA
           ELSE Joined([i \in 1..Len(kept) |-> kept[i].v])

QueryField == "Search Query"

\* the dict literal base_data of parse_api_record
base_data(record) ==
  "LEI" :> safe_get(record, <<"id">>, NA)
  @@ "Legal Name" :> safe_get(record, <<"attributes", "entity", "legalName", "name">>, NA)
  @@ "Other Name" :>
       safe_get(record, <<"attributes", "entity", "otherEntityNames", "0", "otherEntityName">>, NA)
  @@ "Entity Status" :> safe_get(record, <<"attributes", "entity", "status">>, NA)
  @@ "Legal Address" :>
       format_address(safe_get(record, <<"attributes", "entity", "legalAddress">>, EmptyDict))
  @@ "Registration Status" :> safe_get(record, <<"attributes", "registration", "status">>, NA)
  @@ "Managing LOU" :> safe_get(record, <<"attributes", "registration", "managingLou">>, NA)
  @@ "LEI Next Renewal Date" :>
       safe_get(record, <<"attributes", "registration", "nextRenewalDate">>, NA)
  @@ "Entity Creation Date" :>
       safe_get(record, <<"attributes", "entity", "entityCreationDate">>, NA)
  @@ "Entity Expiration Date" :>
       safe_get(record, <<"attributes", "entity", "entityExpirationDate">>, NA)
  @@ "Registered At (Register)" :>
       safe_get(record, <<"attributes", "entity", "registeredAt", "id">>, NA)
  @@ "Registered As" :> safe_get(record, <<"attributes", "entity", "registeredAs">>, NA)
  @@ "Registration Authority Entity ID" :>
       safe_get(record, <<"attributes", "entity", "registrationAuthority",
                          "registrationAuthorityEntityID">>, NA)
  @@ "Validation Authority Entity ID (primary)" :>
       safe_get(record, <<"attributes", "registration", "validationAuthority",
                          "validationAuthorityEntityID">>, NA)
  @@ "Other Validation Authority ID 1" :>
       safe_get(record, <<"attributes", "registration", "otherValidationAuthorities", "0",
                          "validationAuthorityEntityID">>, NA)
  @@ "Other Validation Authority ID 2" :>
       safe_get(record, <<"attributes", "registration", "otherValidationAuthorities", "1",
                          "validationAuthorityEntityID">>, NA)
  @@ "Other Validation Authority ID 3" :>
       safe_get(record, <<"attributes", "registration", "otherValidationAuthorities", "2",
                          "validationAuthorityEntityID">>, NA)
  @@ "Other Validation Authority ID 4" :>
       safe_get(record, <<"attributes", "registration", "otherValidationAuthorities", "3",
                          "validationAuthorityEntityID">>, NA)
  @@ "Other Validation Authority ID 5" :>
       safe_get(record, <<"attributes", "registration", "otherValidationAuthorities", "4",
                          "validationAuthorityEntityID">>, NA)

\* the keys of base_data
FixedFields ==
  {"LEI", "Legal Name", "Other Name", "Entity Status", "Legal Address",
   "Registration Status", "Managing LOU", "LEI Next Renewal Date",
   "Entity Creation Date", "Entity Expiration Date", "Registered At (Register)",
   "Registered As", "Registration Authority Entity ID",
   "Validation Authority Entity ID (primary)", "Other Validation Authority ID 1",
   "Other Validation Authority ID 2", "Other Validation Authority ID 3",
   "Other Validation Authority ID 4", "Other Validation Authority ID 5"}

(***************************************************************************)
(* Bounds of the model and the inputs drawn within them                    *)
(***************************************************************************)
\* longest input list of the specification Spec
MaxItems == 2

RECURSIVE SeqsUpTo(_, _)
\* the sequences over S of length up to n
SeqsUpTo(S, n) ==
  IF n = 0 THEN {<<>>}
  ELSE LET shorter == SeqsUpTo(S, n - 1)
       IN  shorter \cup {Append(s, x) : s \in {t \in shorter : Len(t) = n - 1}, x \in S}

\* those that list no element twice
DistinctSeqsUpTo(S, n) ==
  {s \in SeqsUpTo(S, n) : \A j, k \in 1..Len(s) : j # k => s[j] # s[k]}

\* legal names a caller may pass to search_by_names:
\* "Ab C Inc." has a suffix and two tokens without it
NameSuffix == <<"A","b"," ","C"," ","I","n","c",".">>

\* "A B C" has no suffix and three tokens
NameThree == <<"A"," ","B"," ","C">>

\* "A B C D Ltd" has a suffix and four tokens without it
NameLong == <<"A"," ","B"," ","C"," ","D"," ","L","t","d">>

NameInputs == {NameSuffix, NameThree, NameLong}

\* "Ltd." is a suffix and nothing else
NameOnlySuffix == <<"L","t","d",".">>

\* identifiers a caller may pass to fetch_by_ids and search_by_validation_ids
IdInputs == {<<"L","1">>, <<" ","L","2"," ">>, <<>>}

\* records the registry may return
RecAcme ==
  Dct([id |-> Str("L1"),
       attributes |-> Dct([
         entity |-> Dct([
           legalName |-> Dct([name |-> Str("ACME")]),
           otherEntityNames |-> Lst(<<Dct([otherEntityName |-> Str("ACME OLD")])>>),
           status |-> Str("ACTIVE"),
           legalAddress |-> Dct([addressLines |-> Lst(<<Str("1 Main St")>>),
                                 city |-> Str("Pune"),
                                 region |-> Null,
                                 country |-> Str("IN")])]),
         registration |-> Dct([
           status |-> Str("ISSUED"),
           otherValidationAuthorities |->
             Lst(<<Dct([validationAuthorityEntityID |-> Str("V1")])>>)])])])

RecBeta ==
  Dct([id |-> Str("L2"),
       attributes |-> Dct([
         entity |-> Dct([legalName |-> Dct([name |-> Str("BETA")])])])])

\* a second record under the LEI of RecAcme
RecAcmeAgain ==
  Dct([id |-> Str("L1"),
       attributes |-> Dct([
         entity |-> Dct([legalName |-> Dct([name |-> Str("ACME HOLDING")])])])])

Registry == {RecAcme, RecBeta, RecAcmeAgain}

\* two records that carry no id member
RecNoId ==
  Dct([attributes |-> Dct([
         entity |-> Dct([legalName |-> Dct([name |-> Str("GAMMA")])])])])

RecNoIdOther ==
  Dct([attributes |-> Dct([
         entity |-> Dct([legalName |-> Dct([name |-> Str("DELTA")])])])])

\* a record whose address holds a number where the others hold strings
RecBadAddress ==
  Dct([id |-> Str("L3"),
       attributes |-> Dct([
         entity |-> Dct([
           legalName |-> Dct([name |-> Str("EPSILON")]),
           legalAddress |-> Dct([city |-> Str("Pune"),
                                 postalCode |-> Num(411001)])])])])

\* what the registry can hold when an operation is called; for the name
\* search, two records at a time: of two LEIs, or both of one LEI; for the
\* other two, the three records, the two that carry no id, or a record with
\* the numeric address part next to a plain one
RegistriesOf(o) ==
  IF o = "search_by_names"
    THEN {{RecAcme, RecBeta}, {RecAcme, RecAcmeAgain}}
    ELSE {Registry, {RecNoId, RecNoIdOther}, {RecBeta, RecBadAddress}}

Ops == {"fetch_by_ids", "search_by_names", "search_by_validation_ids"}

InputsOf(o) == IF o = "search_by_names" THEN NameInputs ELSE IdInputs

\* the lists an operation is called with: up to MaxItems of its inputs, and
\* for the name search also the name that is only a suffix, on its own
InputLists(o) ==
  SeqsUpTo(InputsOf(o), MaxItems)
    \cup (IF o = "search_by_names" THEN {<<NameOnlySuffix>>} ELSE {})

\* 2xx bodies of another shape than {"data": [...]}: an object without a data
\* member, an object whose data is null, and a body that is an array
OtherBodies == {EmptyDict, Dct([data |-> Null]), Lst(<<>>)}

\* what session.get / raise_for_status / response.json() can do for a request
\* against a registry holding the records reg: a 2xx response whose data array
\* lists some of the records of reg in some order, a 2xx response with a body
\* of another shape, an HTTP error status, or a transport failure
Outcomes(reg) ==
  {[kind |-> "ok", status |-> 200, body |-> Dct([data |-> Lst(d)])] :
     d \in DistinctSeqsUpTo(reg, Cardinality(reg))}
    \cup {[kind |-> "shape", status |-> 200, body |-> b] : b \in OtherBodies}
    \cup {[kind |-> "http", status |-> st, body |-> Null] : st \in {400, 404, 500}}
    \cup {[kind |-> "transport", status |-> 0, body |-> Null]}

(***************************************************************************)
(* parse_api_record                                                        *)
(***************************************************************************)
\* parse_api_record without the `if search_query:` branch
parse_api_record_untagged(record, search_query) ==
  LET base == base_data(record)
  IN  IF \E f \in DOMAIN base : base[f] = Raised THEN Raised ELSE base

\* search_query is a string (every caller passes one); `if search_query:` is
\* its non-emptiness
parse_api_record(record, search_query) ==
  LET base == base_data(record)
  IN  IF \E f \in DOMAIN base : base[f] = Raised THEN Raised
      \* {"Search Query": search_query, **base_data}
      ELSE IF search_query # <<>> THEN (QueryField :> search_query) @@ base
      ELSE base

(***************************************************************************)
(* GleifClient                                                             *)
(***************************************************************************)
\* a call that returns value, and a call that an exception leaves
Returns(value) == [raised |-> FALSE, value |-> value]

Raises == [raised |-> TRUE, value |-> Lst(<<>>)]

\* response.json().get("data", []): the data member, [] when the object has
\* none; a body that is not an object has no .get (AttributeError, which no
\* except clause of _make_request names)
JsonGetData(body) ==
  IF body.t = "dict"
    THEN Returns(IF "data" \in DOMAIN body.m THEN body.m["data"] ELSE Lst(<<>>))
  ELSE Raises

\* _make_request without `except requests.exceptions.RequestException`
make_request_uncaught(outcome) ==
  CASE outcome.kind \in {"ok", "shape"} -> JsonGetData(outcome.body)
    [] outcome.kind = "http" -> Returns(Lst(<<>>))
    [] outcome.kind = "transport" -> Raises

\* _make_request: response.json().get("data", []) of a 2xx response; HTTPError
\* (raise_for_status) and RequestException (session.get) are caught, reported
\* through st.error / st.warning, and [] is returned
make_request(outcome) ==
  CASE outcome.kind \in {"ok", "shape"} -> JsonGetData(outcome.body)
    [] outcome.kind = "http" -> Returns(Lst(<<>>))
    [] outcome.kind = "transport" -> Returns(Lst(<<>>))

\* `for rec in results:` None is not iterable (TypeError)
Iterable(value) == value.t # "null"

\* the items the loop `for rec in results:` visits
ItemsOf(value) == IF value.t = "list" THEN value.s ELSE <<>>

\* `x not in seen_leis` hashes x: a dict or a list is unhashable (TypeError)
Unhashable(v) == v.t \in {"dict", "list"}

\* parse_api_record(rec, search_query) for every record rec a response can
\* carry, as pairs <<rec, parsed_rec>>
ParsedRecords(reg, search_query) ==
  {<<rec, parse_api_record(rec, search_query)>> : rec \in reg}

ParsedRec(parsed, rec) == (CHOOSE p \in parsed : p[1] = rec)[2]

RECURSIVE StoreSearchFrom_NoSeenCheck(_, _, _, _)
\* the loop of _make_search_request without `if parsed_rec["LEI"] not in seen_leis`
StoreSearchFrom_NoSeenCheck(acc, results, k, parsed) ==
  IF k > Len(results) \/ acc.raised THEN acc
  ELSE LET parsed_rec == ParsedRec(parsed, results[k])
       IN  IF parsed_rec = Raised THEN [acc EXCEPT !.raised = TRUE]
           ELSE StoreSearchFrom_NoSeenCheck(
                  [acc EXCEPT !.all_results = Append(acc.all_results, parsed_rec),
                              !.seen_leis = acc.seen_leis \cup {parsed_rec["LEI"]}],
                  results, k + 1, parsed)

RECURSIVE StoreSearchFrom(_, _, _, _)
\* the loop over results in _make_search_request; parsed holds
\* parse_api_record(rec, search_query=query) of each rec
StoreSearchFrom(acc, results, k, parsed) ==
  IF k > Len(results) \/ acc.raised THEN acc
  ELSE LET parsed_rec == ParsedRec(parsed, results[k])
       IN  IF parsed_rec = Raised THEN [acc EXCEPT !.raised = TRUE]
           ELSE IF Unhashable(parsed_rec["LEI"]) THEN [acc EXCEPT !.raised = TRUE]
           ELSE IF parsed_rec["LEI"] \notin acc.seen_leis
             THEN StoreSearchFrom([acc EXCEPT !.all_results = Append(acc.all_results, parsed_rec),
                                              !.seen_leis = acc.seen_leis \cup {parsed_rec["LEI"]}],
                                  results, k + 1, parsed)
           ELSE StoreSearchFrom(acc, results, k + 1, parsed)

TagChars(tag) ==
  CASE tag = "exact" -> <<"e","x","a","c","t">>
    [] tag = "cleaned" -> <<"c","l","e","a","n","e","d">>
    [] tag = "substring" -> <<"s","u","b","s","t","r","i","n","g">>

\* f"{original_name} ({tag})"
SearchQueryOf(original_name, tag) ==
  original_name \o <<" ", "(">> \o TagChars(tag) \o <<")">>

RECURSIVE FetchAndStoreFrom_LastWins(_, _, _, _)
\* the loop of fetch_and_store with a record of an already seen LEI written
\* over the entry that holds that LEI
FetchAndStoreFrom_LastWins(acc, results, k, parsed) ==
  IF k > Len(results) \/ acc.raised THEN acc
  ELSE LET parsed_rec == ParsedRec(parsed, results[k])
       IN  IF parsed_rec = Raised THEN [acc EXCEPT !.raised = TRUE]
           ELSE IF parsed_rec["LEI"] \notin acc.seen_leis
             THEN FetchAndStoreFrom_LastWins(
                    [acc EXCEPT !.all_results = Append(acc.all_results, parsed_rec),
                                !.seen_leis = acc.seen_leis \cup {parsed_rec["LEI"]},
                                !.found = TRUE],
                    results, k + 1, parsed)
           ELSE FetchAndStoreFrom_LastWins(
                  [acc EXCEPT !.all_results =
                     [j \in 1..Len(acc.all_results) |->
                        IF acc.all_results[j]["LEI"] = parsed_rec["LEI"]
                          THEN parsed_rec ELSE acc.all_results[j]]],
                  results, k + 1, parsed)

RECURSIVE FetchAndStoreFrom_AnyHitFinds(_, _, _, _)
\* the loop of fetch_and_store with `found = True` set for every record, seen
\* or not
FetchAndStoreFrom_AnyHitFinds(acc, results, k, parsed) ==
  IF k > Len(results) \/ acc.raised THEN acc
  ELSE LET parsed_rec == ParsedRec(parsed, results[k])
       IN  IF parsed_rec = Raised THEN [acc EXCEPT !.raised = TRUE]
           ELSE IF Unhashable(parsed_rec["LEI"]) THEN [acc EXCEPT !.raised = TRUE]
           ELSE IF parsed_rec["LEI"] \notin acc.seen_leis
             THEN FetchAndStoreFrom_AnyHitFinds(
                    [acc EXCEPT !.all_results = Append(acc.all_results, parsed_rec),
                                !.seen_leis = acc.seen_leis \cup {parsed_rec["LEI"]},
                                !.found = TRUE],
                    results, k + 1, parsed)
           ELSE FetchAndStoreFrom_AnyHitFinds([acc EXCEPT !.found = TRUE],
                                              results, k + 1, parsed)

RECURSIVE FetchAndStoreFrom(_, _, _, _)
\* the loop over results in fetch_and_store; parsed holds
\* parse_api_record(rec, search_query=f"{original_name} ({tag})") of each rec
FetchAndStoreFrom(acc, results, k, parsed) ==
  IF k > Len(results) \/ acc.raised THEN acc
  ELSE LET parsed_rec == ParsedRec(parsed, results[k])
       IN  IF parsed_rec = Raised THEN [acc EXCEPT !.raised = TRUE]
           ELSE IF Unhashable(parsed_rec["LEI"]) THEN [acc EXCEPT !.raised = TRUE]
           ELSE IF parsed_rec["LEI"] \notin acc.seen_leis
             THEN FetchAndStoreFrom([acc EXCEPT !.all_results = Append(acc.all_results, parsed_rec),
                                                !.seen_leis = acc.seen_leis \cup {parsed_rec["LEI"]},
                                                !.found = TRUE],
                                    results, k + 1, parsed)
           ELSE FetchAndStoreFrom(acc, results, k + 1, parsed)

(***************************************************************************)
(* State                                                                   *)
(***************************************************************************)
VARIABLES
  op,          \* the batch operation that was called
  queries,     \* its argument: lei_ids, names or validation_ids
  registry,    \* the records the remote registry can return
  i,           \* the loop variable of enumerate(queries, 1)
  pc,          \* position in the operation
  all_results, \* the accumulating result list
  seen_leis,   \* the set of LEI values already appended
  found,       \* the nonlocal flag of search_by_names
  pauses,      \* number of time.sleep(1) calls made so far
  issued,      \* the requests issued for item i so far
  response,    \* what the latest request brought back
  returned     \* the list handed back to the caller (at pc = "done")

vars == <<op, queries, registry, i, pc, all_results, seen_leis, found, pauses,
          issued, response, returned>>

\* the filter key each wrapper passes to _make_search_request
FilterKeyOf(o) == IF o = "fetch_by_ids" THEN "filter[lei]" ELSE "filter[fulltext]"

\* where an operation starts on an item
FirstStage(o) == IF o = "search_by_names" THEN "exact" ELSE "request"

\* a request as issued: params = {filter_key: query.strip(), "page[size]": 10},
\* and the number of records it added to all_results
Entry(tag, filter_key, query, added) ==
  [tag |-> tag, filter_key |-> filter_key, query |-> Strip(query), added |-> added]

\* what a request brought back: the outcome and the list _make_request returned
Response(outcome, results) ==
  [kind |-> outcome.kind, status |-> outcome.status, results |-> results]

NoResponse == [kind |-> "none", status |-> 0, results |-> <<>>]

\* the variables a request step writes
Apply(step) ==
  /\ pc' = step.pc
  /\ all_results' = step.all_results
  /\ seen_leis' = step.seen_leis
  /\ found' = step.found
  /\ issued' = step.issued
  /\ response' = step.response

\* an exception leaves the operation after the request `entry`: nothing is
\* returned to the caller
RaisedStep(entry, outcome) ==
  [pc |-> "raised", all_results |-> all_results, seen_leis |-> seen_leis,
   found |-> found, issued |-> Append(issued, entry),
   response |-> Response(outcome, <<>>)]

(***************************************************************************)
(* _make_search_request: one iteration of its loop, up to the pause        *)
(***************************************************************************)
\* the loop over results without the seen_leis test when the filter key is
\* filter[fulltext]
SearchRequest_FulltextKeepsAll(query, filter_key, outcome, parsed) ==
  LET call == make_request(outcome)
      results == ItemsOf(call.value)
      start == [all_results |-> all_results,
                seen_leis |-> seen_leis,
                raised |-> call.raised \/ ~Iterable(call.value)]
      acc == IF filter_key = "filter[fulltext]"
               THEN StoreSearchFrom_NoSeenCheck(start, results, 1, parsed)
             ELSE StoreSearchFrom(start, results, 1, parsed)
  IN  IF acc.raised
        THEN RaisedStep(Entry("item", filter_key, query, 0), outcome)
      ELSE [pc |-> "loop_end",
            all_results |-> acc.all_results,
            seen_leis |-> acc.seen_leis,
            found |-> found,
            issued |-> Append(issued,
                              Entry("item", filter_key, query,
                                    Len(acc.all_results) - Len(all_results))),
            response |-> Response(outcome, results)]

\* params, _make_request and the loop over results, for the response `outcome`
SearchRequest(query, filter_key, outcome, parsed) ==
  LET call == make_request(outcome)
      results == ItemsOf(call.value)
      acc == StoreSearchFrom([all_results |-> all_results,
                              seen_leis |-> seen_leis,
                              raised |-> call.raised \/ ~Iterable(call.value)],
                             results, 1, parsed)
  IN  IF acc.raised
        THEN RaisedStep(Entry("item", filter_key, query, 0), outcome)
      ELSE [pc |-> "loop_end",
            all_results |-> acc.all_results,
            seen_leis |-> acc.seen_leis,
            found |-> found,
            issued |-> Append(issued,
                              Entry("item", filter_key, query,
                                    Len(acc.all_results) - Len(all_results))),
            response |-> Response(outcome, results)]

\* what the iteration for queries[i] can lead to, one step per response
SearchRequestSteps ==
  LET query == queries[i]
      parsed == ParsedRecords(registry, query)
  IN  {SearchRequest(query, FilterKeyOf(op), outcome, parsed) :
         outcome \in Outcomes(registry)}

MakeSearchRequest ==
  /\ pc = "request"
  /\ \E step \in SearchRequestSteps : Apply(step)
  /\ UNCHANGED <<op, queries, registry, i, pauses, returned>>

(***************************************************************************)
(* search_by_names: the three stages of one name                           *)
(***************************************************************************)
\* step 2 without `if cleaned != original_name.upper():`
NeedsCleaned_Unconditional(fnd, cleaned, original_name) == ~fnd

\* step 2 issues its request: `if not found:` and
\* `if cleaned != original_name.upper():`
NeedsCleaned(fnd, cleaned, original_name) ==
  /\ ~fnd
  /\ cleaned # Upper(original_name)

\* step 3 issues its request: `if not found:` and `if len(tokens) > 2:`
NeedsSubstring(fnd, cleaned) ==
  /\ ~fnd
  /\ Len(Split(cleaned)) > 2

\* the substring query without the cut to three tokens
SubstringQuery_AllTokens(cleaned) == Join(Split(cleaned), <<" ">>)

\* " ".join(tokens[:min(3, len(tokens))])
SubstringQuery(cleaned) ==
  LET tokens == Split(cleaned)
  IN  Join(SubSeq(tokens, 1, Min(3, Len(tokens))), <<" ">>)

\* fetch_and_store followed by the next stage whether or not something was
\* found (the `if not found:` tests left out)
FetchAndStore_NoFoundTest(query, tag, outcome, parsed, fallback) ==
  LET call == make_request(outcome)
      results == ItemsOf(call.value)
      acc == FetchAndStoreFrom([all_results |-> all_results,
                                seen_leis |-> seen_leis,
                                found |-> found,
                                raised |-> call.raised \/ ~Iterable(call.value)],
                               results, 1, parsed)
  IN  IF acc.raised
        THEN RaisedStep(Entry(tag, "filter[fulltext]", query, 0), outcome)
      ELSE [pc |-> fallback,
            all_results |-> acc.all_results,
            seen_leis |-> acc.seen_leis,
            found |-> acc.found,
            issued |-> Append(issued,
                              Entry(tag, "filter[fulltext]", query,
                                    Len(acc.all_results) - Len(all_results))),
            response |-> Response(outcome, results)]

\* fetch_and_store(query, tag) for the response `outcome`; then the stage
\* `fallback` when nothing has been found, else the end of the iteration
FetchAndStore(query, tag, outcome, parsed, fallback) ==
  LET call == make_request(outcome)
      results == ItemsOf(call.value)
      acc == FetchAndStoreFrom([all_results |-> all_results,
                                seen_leis |-> seen_leis,
                                found |-> found,
                                raised |-> call.raised \/ ~Iterable(call.value)],
                               results, 1, parsed)
  IN  IF acc.raised
        THEN RaisedStep(Entry(tag, "filter[fulltext]", query, 0), outcome)
      ELSE [pc |-> IF acc.found THEN "loop_end" ELSE fallback,
            all_results |-> acc.all_results,
            seen_leis |-> acc.seen_leis,
            found |-> acc.found,
            issued |-> Append(issued,
                              Entry(tag, "filter[fulltext]", query,
                                    Len(acc.all_results) - Len(all_results))),
            response |-> Response(outcome, results)]

\* the stage after step 2 when nothing has been found
AfterCleaned(cleaned) ==
  IF NeedsSubstring(FALSE, cleaned) THEN "substring" ELSE "loop_end"

\* the stage after step 1 when nothing has been found
AfterExact(cleaned, original_name) ==
  IF NeedsCleaned(FALSE, cleaned, original_name) THEN "cleaned"
  ELSE AfterCleaned(cleaned)

\* Step 1: fetch_and_store(original_name, "exact")
ExactSteps ==
  LET original_name == queries[i]
      parsed == ParsedRecords(registry, SearchQueryOf(original_name, "exact"))
      fallback == AfterExact(clean_legal_name(original_name), original_name)
  IN  {FetchAndStore(original_name, "exact", outcome, parsed, fallback) :
         outcome \in Outcomes(registry)}

ExactStage ==
  /\ pc = "exact"
  /\ \E step \in ExactSteps : Apply(step)
  /\ UNCHANGED <<op, queries, registry, i, pauses, returned>>

\* step 2 with the records tagged by the query text instead of original_name
CleanedSteps_TaggedByQuery ==
  LET original_name == queries[i]
      cleaned == clean_legal_name(original_name)
      parsed == ParsedRecords(registry, SearchQueryOf(cleaned, "cleaned"))
      fallback == AfterCleaned(cleaned)
  IN  {FetchAndStore(cleaned, "cleaned", outcome, parsed, fallback) :
         outcome \in Outcomes(registry)}

\* Step 2: fetch_and_store(cleaned, "cleaned")
CleanedSteps ==
  LET original_name == queries[i]
      cleaned == clean_legal_name(original_name)
      parsed == ParsedRecords(registry, SearchQueryOf(original_name, "cleaned"))
      fallback == AfterCleaned(cleaned)
  IN  {FetchAndStore(cleaned, "cleaned", outcome, parsed, fallback) :
         outcome \in Outcomes(registry)}

CleanedStage ==
  /\ pc = "cleaned"
  /\ \E step \in CleanedSteps : Apply(step)
  /\ UNCHANGED <<op, queries, registry, i, pauses, returned>>

\* Step 3: fetch_and_store(substring_query, "substring")
SubstringSteps ==
  LET original_name == queries[i]
      substring_query == SubstringQuery(clean_legal_name(original_name))
      parsed == ParsedRecords(registry, SearchQueryOf(original_name, "substring"))
  IN  {FetchAndStore(substring_query, "substring", outcome, parsed, "loop_end") :
         outcome \in Outcomes(registry)}

SubstringStage ==
  /\ pc = "substring"
  /\ \E step \in SubstringSteps : Apply(step)
  /\ UNCHANGED <<op, queries, registry, i, pauses, returned>>

(***************************************************************************)
(* The end of a loop iteration (both loops): the pause, then the next item *)
(***************************************************************************)
\* the pause test with >= in place of >
MustSleep_AtLimit(n, k) == n >= REQUESTS_PER_MINUTE_LIMIT /\ k < n

\* `if len(queries) > REQUESTS_PER_MINUTE_LIMIT and i < len(queries)`
MustSleep(n, k) == n > REQUESTS_PER_MINUTE_LIMIT /\ k < n

LoopEnd ==
  /\ pc = "loop_end"
  /\ pauses' = IF MustSleep(Len(queries), i) THEN pauses + 1 ELSE pauses
  /\ IF i < Len(queries)
       THEN /\ i' = i + 1
            /\ pc' = FirstStage(op)
            /\ found' = FALSE
            /\ issued' = <<>>
            /\ response' = NoResponse
       ELSE /\ pc' = "return"
            /\ UNCHANGED <<i, found, issued, response>>
  /\ UNCHANGED <<op, queries, registry, all_results, seen_leis, returned>>

\* status_text.empty(); return all_results
Return ==
  /\ pc = "return"
  /\ returned' = all_results
  /\ pc' = "done"
  /\ UNCHANGED <<op, queries, registry, i, all_results, seen_leis, found, pauses,
                 issued, response>>

Next ==
  \/ MakeSearchRequest
  \/ ExactStage
  \/ CleanedStage
  \/ SubstringStage
  \/ LoopEnd
  \/ Return

\* the state when an operation is entered with the given arguments
Entered(o, qs, reg) ==
  /\ op = o
  /\ queries = qs
  /\ registry = reg
  /\ i = Min(1, Len(qs))
  /\ pc = IF qs = <<>> THEN "return" ELSE FirstStage(o)
  /\ all_results = <<>>
  /\ seen_leis = {}
  /\ found = FALSE
  /\ pauses = 0
  /\ issued = <<>>
  /\ response = NoResponse
  /\ returned = <<>>

\* every operation on every input list of up to MaxItems items
Init ==
  \E o \in Ops : \E qs \in InputLists(o) :
    \E reg \in RegistriesOf(o) : Entered(o, qs, reg)

Spec == Init /\ [][Next]_vars

(***************************************************************************)
(* Long batches, around the rate-limit threshold                           *)
(***************************************************************************)
\* list lengths below, at and above REQUESTS_PER_MINUTE_LIMIT
RateLengths ==
  {REQUESTS_PER_MINUTE_LIMIT, REQUESTS_PER_MINUTE_LIMIT + 1}

\* the item repeated n times
Repeat(item, n) == [k \in 1..n |-> item]

RateItems(o) == IF o = "search_by_names" THEN {NameLong} ELSE {<<"L","2">>}

InitRate ==
  \E o \in Ops : \E n \in RateLengths : \E item \in RateItems(o) :
    Entered(o, Repeat(item, n), {RecBeta})

SpecRate == InitRate /\ [][Next]_vars

(***************************************************************************)
(* Properties                                                              *)
(***************************************************************************)
IsNames == op = "search_by_names"

\* the LEI value of a flattened record
LeiOf(rec) == rec["LEI"]

\* the LEI value the flattener gives a raw record
LeiOfRaw(raw) == safe_get(raw, <<"id">>, NA)

NoDuplicateLei(list) ==
  \A j, k \in 1..Len(list) : j # k => LeiOf(list[j]) # LeiOf(list[k])

IsPrefix(s, t) == Len(s) <= Len(t) /\ SubSeq(t, 1, Len(s)) = s

\* the latest request of the current item
LastIssued == issued[Len(issued)]

\* this step issues a request
RequestStep == Len(issued') = Len(issued) + 1

\* the request of item i with the given tag, if it was issued
HasIssued(tag) == \E j \in 1..Len(issued) : issued[j].tag = tag

\* C1: in each of the three operations the accumulating result list never
\* holds two records with the same LEI value, at any step of the batch, and
\* neither does the returned list.
C1_UniqueByLei ==
  /\ NoDuplicateLei(all_results)
  /\ NoDuplicateLei(returned)

\* a batch has returned after its last response repeated an LEI that was
\* already in the list, and the repeated record was dropped
C1_Witness ==
  /\ pc = "done"
  /\ returned # <<>>
  /\ issued # <<>>
  /\ Len(response.results) > LastIssued.added
  /\ \E k \in 1..Len(response.results) :
       \E j \in 1..(Len(returned) - LastIssued.added) :
         LeiOfRaw(response.results[k]) = LeiOf(returned[j])

\* C2: in search_by_names, once a stage's request has added a record with a
\* new LEI, no later stage is issued for that name: nothing after an adding
\* exact stage, no substring stage after an adding cleaned stage.
C2_StopAtFirstFind ==
  IsNames =>
    \A j \in 1..Len(issued) :
      issued[j].added > 0 =>
        /\ j = Len(issued)
        /\ pc \notin {"cleaned", "substring"}

\* the exact stage of "A B C D Ltd" (which has a cleaned and a substring
\* form) added a record and the name is finished after that one request
C2_Witness ==
  /\ IsNames
  /\ i \in 1..Len(queries)
  /\ queries[i] = NameLong
  /\ Len(issued) = 1
  /\ issued[1].tag = "exact"
  /\ issued[1].added > 0
  /\ pc = "loop_end"
\* the stage tags of search_by_names
StageTags == {"exact", "cleaned", "substring"}

\* the records a step appends are tagged with the original name and the tag
\* of the stage that issued the request, and come from that request's hits
C3_NewRecordsTagged ==
  (IsNames /\ RequestStep /\ pc' # "raised") =>
    LET entry == issued'[Len(issued')]
        search_query == SearchQueryOf(queries[i], entry.tag)
    IN  /\ entry.tag \in StageTags
        /\ \A k \in (Len(all_results) + 1)..Len(all_results') :
             /\ QueryField \in DOMAIN all_results'[k]
             /\ all_results'[k][QueryField] = search_query
             /\ \E m \in 1..Len(response'.results) :
                  LeiOfRaw(response'.results[m]) = LeiOf(all_results'[k])

\* every record of the list is tagged with some input name seen so far
C3_AllTagged ==
  IsNames =>
    /\ \A k \in 1..Len(all_results) :
         \E j \in 1..i : \E tag \in StageTags :
           all_results[k][QueryField] = SearchQueryOf(queries[j], tag)
    /\ pc = "done" => returned = all_results

\* the exact stage of the current name brought no hit and this step is its
\* cleaned stage, bringing one hit
C3_OneCleanedHit ==
  /\ IsNames
  /\ pc = "cleaned"
  /\ response.results = <<>>
  /\ RequestStep
  /\ Len(response'.results) = 1

\* the name ends with exactly one record, the hit tagged (cleaned)
C3_OneCleanedRecord ==
  /\ Len(all_results') = Len(all_results) + 1
  /\ LeiOf(all_results'[Len(all_results')]) = LeiOfRaw(response'.results[1])
  /\ all_results'[Len(all_results')][QueryField] = SearchQueryOf(queries[i], "cleaned")
  /\ pc' = "loop_end"

C4_PausesBetweenItems ==
  LET n == Len(queries)
  IN  /\ n <= 60 => pauses = 0
      /\ n > 60 =>
           /\ pc \in {"request", "exact", "cleaned", "substring", "loop_end"}
                => pauses = i - 1
           /\ pc \in {"return", "done"} => pauses = n - 1

\* a batch of 61 items has returned after 60 pauses
C4_Witness ==
  /\ pc = "done"
  /\ Len(queries) = 61
  /\ pauses = 60

\* C5: a request that ends in an HTTP error status or a transport failure
\* raises nothing and yields an empty sequence: it adds no record, leaves the
\* result list and the seen-LEI set as they were, the batch goes on with the
\* next stage or item, and what was accumulated is what is returned.
C5_FailureYieldsEmpty ==
  [][/\ (RequestStep /\ response'.kind \in {"http", "transport"}) =>
          /\ pc' \in {"cleaned", "substring", "loop_end"}
          /\ response'.results = <<>>
          /\ issued'[Len(issued')].added = 0
          /\ all_results' = all_results
          /\ seen_leis' = seen_leis
     /\ (pc = "loop_end" /\ response.kind \in {"http", "transport"}) =>
          /\ pc' = IF i < Len(queries) THEN FirstStage(op) ELSE "return"
          /\ i' = IF i < Len(queries) THEN i + 1 ELSE i
          /\ all_results' = all_results
     /\ pc' = "done" => returned' = all_results]_vars

\* the last request of a batch failed at transport level and the records
\* found before it were returned
C5_Witness ==
  /\ pc = "done"
  /\ i = 2
  /\ returned # <<>>
  /\ returned = all_results
  /\ response.kind = "transport"
  /\ response.results = <<>>

C7_AppendOnlyFirstSeenWins ==
  [][/\ IsPrefix(all_results, all_results')
     /\ seen_leis \subseteq seen_leis'
     /\ seen_leis' = {LeiOf(all_results'[k]) : k \in 1..Len(all_results')}
     /\ (/\ RequestStep
         /\ pc' # "raised"
         /\ \A m \in 1..Len(response'.results) :
              LeiOfRaw(response'.results[m]) \in seen_leis)
          => /\ all_results' = all_results
             /\ seen_leis' = seen_leis]_vars

\* the cleaned stage of the second name brought back an LEI that the first
\* name's exact stage had recorded; the entry keeps the first name's tag
C7_Witness ==
  /\ IsNames
  /\ i = 2
  /\ issued # <<>>
  /\ LastIssued.tag = "cleaned"
  /\ LastIssued.added = 0
  /\ Len(response.results) = 1
  /\ Len(all_results) = 1
  /\ LeiOf(all_results[1]) = LeiOfRaw(response.results[1])
  /\ all_results[1][QueryField] = SearchQueryOf(queries[1], "exact")
  /\ queries[1] # queries[2]

\* the position a numeric path segment names
DigitIndex(key) ==
  CASE key = "0" -> 0 [] key = "1" -> 1 [] key = "2" -> 2
    [] key = "3" -> 3 [] key = "4" -> 4

RECURSIVE IndexedGetFrom(_, _, _, _)
\* path resolution in which a numeric segment indexes 0-based into a
\* sequence and a non-numeric segment looks up a key of a mapping
IndexedGetFrom(data, keys, n, default) ==
  IF n > Len(keys)
    THEN (IF data.t = "null" THEN default ELSE data)
  ELSE IF IsDigitKey(keys[n])
    THEN IF data.t = "list" /\ DigitIndex(keys[n]) < Len(data.s)
           THEN IndexedGetFrom(data.s[DigitIndex(keys[n]) + 1], keys, n + 1, default)
         ELSE default
  ELSE IF data.t = "dict"
    THEN IndexedGetFrom(IF keys[n] \in DOMAIN data.m THEN data.m[keys[n]] ELSE Null,
                        keys, n + 1, default)
  ELSE default

OtherValidationField(n) ==
  CASE n = 0 -> "Other Validation Authority ID 1"
    [] n = 1 -> "Other Validation Authority ID 2"
    [] n = 2 -> "Other Validation Authority ID 3"
    [] n = 3 -> "Other Validation Authority ID 4"
    [] n = 4 -> "Other Validation Authority ID 5"

DigitKey(n) ==
  CASE n = 0 -> "0" [] n = 1 -> "1" [] n = 2 -> "2" [] n = 3 -> "3" [] n = 4 -> "4"

\* the flattened record holds what the numeric segments index in raw
IndexedFieldsOf(rec, raw) ==
  /\ rec["Other Name"] =
       IndexedGetFrom(raw, <<"attributes", "entity", "otherEntityNames", "0",
                             "otherEntityName">>, 1, NA)
  /\ \A n \in 0..4 :
       rec[OtherValidationField(n)] =
         IndexedGetFrom(raw, <<"attributes", "registration",
                               "otherValidationAuthorities", DigitKey(n),
                               "validationAuthorityEntityID">>, 1, NA)

\* C8: a numeric path segment indexes 0-based into a sequence: each record a
\* request appends holds, as Other Name and as Other Validation Authority ID
\* 1..5, the element the path names in the hit it was flattened from, and the
\* sentinel only when the index is past the end or the node is missing.
C8_NumericSegmentIndexes ==
  (issued # <<>> /\ pc # "raised") =>
    \A k \in (Len(all_results) - LastIssued.added + 1)..Len(all_results) :
      \E m \in 1..Len(response.results) :
        /\ LeiOfRaw(response.results[m]) = LeiOf(all_results[k])
        /\ IndexedFieldsOf(all_results[k], response.results[m])

\* the stages of the current item are all behind
ItemDone == pc = "loop_end"

\* C9: in search_by_names the cleaned stage is reached, and its request
\* issued, exactly when the exact stage added no record and
\* clean_legal_name(name) differs from name.upper(); when they are identical
\* no cleaned-stage request is issued.
C9_CleanedIffDiffers ==
  (IsNames /\ issued # <<>> /\ pc # "raised") =>
    LET original_name == queries[i]
        differs == clean_legal_name(original_name) # Upper(original_name)
    IN  /\ pc = "cleaned" => (issued[1].added = 0 /\ differs)
        /\ ItemDone => (HasIssued("cleaned") <=> (issued[1].added = 0 /\ differs))

\* "A B C" cleans to its own uppercase: its exact stage found nothing, no
\* cleaned request was issued, and the substring stage followed
C9_Witness ==
  /\ IsNames
  /\ i \in 1..Len(queries)
  /\ queries[i] = NameThree
  /\ pc = "loop_end"
  /\ Len(issued) = 2
  /\ issued[1].added = 0
  /\ issued[2].tag = "substring"
  /\ ~HasIssued("cleaned")

\* C10: in search_by_names the substring stage is reached, and its request
\* issued, exactly when no earlier stage of the name added a record and the
\* cleaned name has more than 2 whitespace-separated tokens; its query is the
\* first 3 tokens of the cleaned name joined by single spaces.
C10_SubstringIffLong ==
  (IsNames /\ issued # <<>> /\ pc # "raised") =>
    LET tokens == Split(clean_legal_name(queries[i]))
        none_added == \A j \in 1..Len(issued) :
                        issued[j].tag # "substring" => issued[j].added = 0
    IN  /\ pc = "substring" => (none_added /\ Len(tokens) > 2)
        /\ ItemDone => (HasIssued("substring") <=> (none_added /\ Len(tokens) > 2))
        /\ \A j \in 1..Len(issued) :
             issued[j].tag = "substring" =>
               issued[j].query = tokens[1] \o <<" ">> \o tokens[2] \o <<" ">> \o tokens[3]

\* "A B C D Ltd" went through all three stages; the substring query is
\* "A B C", the first three of the four tokens of "A B C D"
C10_Witness ==
  /\ IsNames
  /\ i \in 1..Len(queries)
  /\ queries[i] = NameLong
  /\ pc = "loop_end"
  /\ Len(issued) = 3
  /\ issued[3].tag = "substring"
  /\ issued[3].query = <<"A", " ", "B", " ", "C">>
\* C11: a 2xx response whose body has another shape than {"data": [...]}
\* (no data member, data null, the body not an object) yields an empty
\* sequence and the batch does not fail: the request adds nothing, raises
\* nothing, and the operation goes on with its next stage or item.
C11_OtherShapeYieldsEmpty ==
  [][(RequestStep /\ response'.kind = "shape") =>
       /\ pc' \in {"cleaned", "substring", "loop_end"}
       /\ response'.results = <<>>
       /\ all_results' = all_results
       /\ seen_leis' = seen_leis]_vars
\* C12: every record of a result set has an LEI value other than the
\* sentinel "N/A", whatever members the hits lack (the id included), so that
\* hits are never merged for want of an identifier.
C12_LeiNeverSentinel ==
  /\ \A k \in 1..Len(all_results) : LeiOf(all_results[k]) # NA
  /\ \A k \in 1..Len(returned) : LeiOf(returned[k]) # NA
(***************************************************************************)
(* clean_legal_name called on its own, then on its own result              *)
(***************************************************************************)
MaxPieces == 3

\* what the names are put together from: words that are suffixes, alone
\* ("Ltd", "Co", "as"), with dots ("S.A.") or only together with the next
\* word ("P" of "P. LTD."), and separators
NamePieces == {<<"P">>, <<"L","t","d">>, <<"S",".","A",".">>, <<"C","o">>, <<"a","s">>, <<" ">>, <<".">>, <<"-">>}

RECURSIVE ConcatAll(_)
ConcatAll(parts) ==
  IF parts = <<>> THEN <<>> ELSE Head(parts) \o ConcatAll(Tail(parts))

\* the names of up to MaxPieces pieces
PieceNames == {ConcatAll(parts) : parts \in SeqsUpTo(NamePieces, MaxPieces)}

\* a function of the module is called with one argument, outside any batch
Called(f, arg) ==
  /\ op = f
  /\ queries = <<arg>>
  /\ registry = {}
  /\ i = 0
  /\ pc = "call"
  /\ all_results = <<>>
  /\ seen_leis = {}
  /\ found = FALSE
  /\ pauses = 0
  /\ issued = <<>>
  /\ response = NoResponse
  /\ returned = <<>>

InitClean == \E name \in PieceNames : Called("clean_legal_name", name)

\* clean_legal_name(name)
CleanOnce ==
  /\ pc = "call"
  /\ returned' = clean_legal_name(queries[1])
  /\ pc' = "cleaned"
  /\ UNCHANGED <<op, queries, registry, i, all_results, seen_leis, found, pauses,
                 issued, response>>

\* clean_legal_name of the value the first call returned
CleanAgain ==
  /\ pc = "cleaned"
  /\ returned' = clean_legal_name(returned)
  /\ pc' = "cleaned_again"
  /\ UNCHANGED <<op, queries, registry, i, all_results, seen_leis, found, pauses,
                 issued, response>>

NextClean == CleanOnce \/ CleanAgain

SpecClean == InitClean /\ [][NextClean]_vars

\* C13: clean_legal_name is idempotent: cleaning a cleaned name returns it
\* unchanged, clean(clean(x)) = clean(x).
C13_CleanIdempotent ==
  [][pc = "cleaned" => returned' = returned]_vars

\* a name that lost a suffix to the first pass ("P-Ltd" gives "P-") was cleaned
\* a second time
C13_Witness ==
  /\ pc = "cleaned_again"
  /\ queries[1] = <<"P","-","L","t","d">>
  /\ returned = <<"P","-">>
(***************************************************************************)
(* parse_api_record called on its own, on records of any shape             *)
(***************************************************************************)
\* what a record may hold at attributes.entity.legalAddress.city
CityValues == {Null, Str(""), Str("Pune"), Lst(<<Str("Pune")>>)}

\* ... and at attributes.entity.legalAddress.postalCode
PostalValues == {Null, Str("411001"), Num(411001), Num(0)}

AddressValues ==
  {Null, Str("1 Main St"), Lst(<<>>), EmptyDict}
    \cup {Dct([city |-> c, postalCode |-> p]) : c \in CityValues, p \in PostalValues}

LegalNameValues == {Null, Str("ACME"), Dct([name |-> Str("ACME")])}

EntityValues ==
  {Null, Str("x"), Lst(<<>>)}
    \cup {Dct([legalName |-> n]) : n \in LegalNameValues}
    \cup {Dct([legalName |-> n, legalAddress |-> a]) :
            n \in LegalNameValues, a \in AddressValues}

AttributesValues ==
  {Null, Str("x"), Lst(<<>>), EmptyDict} \cup {Dct([entity |-> e]) : e \in EntityValues}

\* the records handed to parse_api_record: mappings, sequences, scalars and
\* nulls at every depth, members missing at every depth
AnyRecords ==
  {Null, Lst(<<>>), EmptyDict}
    \cup {Dct([attributes |-> a]) : a \in AttributesValues}
    \cup {Dct([id |-> x, attributes |-> a]) : x \in {Null, Str("L1")}, a \in AttributesValues}

InitFlatten ==
  \E record \in AnyRecords : \E search_query \in {<<>>, <<"q">>} :
    Called("parse_api_record", <<record, search_query>>)

\* parse_api_record(record, search_query): returns the flat record or leaves
\* with the TypeError of format_address
Flatten ==
  /\ pc = "call"
  /\ LET flat == parse_api_record(queries[1][1], queries[1][2])
     IN  IF flat = Raised
           THEN pc' = "raised" /\ returned' = <<>>
         ELSE pc' = "flattened" /\ returned' = <<flat>>
  /\ UNCHANGED <<op, queries, registry, i, all_results, seen_leis, found, pauses,
                 issued, response>>

NextFlatten == Flatten

SpecFlatten == InitFlatten /\ [][NextFlatten]_vars

\* C14: parse_api_record never raises, whatever the shape of the record, and
\* its output always holds the 19 fixed fields.
C14_FlattenNeverRaises ==
  /\ pc # "raised"
  /\ pc = "flattened" => FixedFields \subseteq DOMAIN returned[1]
\* the requests with their filter key replaced
ReKeyed(entries, key) ==
  [k \in 1..Len(entries) |-> [entries[k] EXCEPT !.filter_key = key]]

\* what fetch_by_ids does with queries[i] in the current state, one step per
\* response
FetchByIdsSteps ==
  LET query == queries[i]
      parsed == ParsedRecords(registry, query)
  IN  {SearchRequest(query, "filter[lei]", outcome, parsed) :
         outcome \in Outcomes(registry)}

\* C15: search_by_validation_ids has the mechanics of fetch_by_ids except for
\* the filter key: each of its steps is the step fetch_by_ids takes from the
\* same state on the same response (same query, same records appended, same
\* pause, same list returned), the request carrying filter[fulltext] where
\* fetch_by_ids sends filter[lei].
C15_ValidationIdsAsFetchByIds ==
  [][op = "search_by_validation_ids" =>
       /\ pc = "request" =>
            /\ \E step \in FetchByIdsSteps :
                 /\ pc' = step.pc
                 /\ all_results' = step.all_results
                 /\ seen_leis' = step.seen_leis
                 /\ response' = step.response
                 /\ ReKeyed(issued', "filter[lei]") = step.issued
            /\ LastIssued'.filter_key = "filter[fulltext]"
            /\ pauses' = pauses
       /\ pc = "loop_end" =>
            /\ pauses' = pauses + (IF Len(queries) > REQUESTS_PER_MINUTE_LIMIT
                                      /\ i < Len(queries) THEN 1 ELSE 0)
            /\ i' = IF i < Len(queries) THEN i + 1 ELSE i
            /\ pc' = IF i < Len(queries) THEN "request" ELSE "return"
            /\ all_results' = all_results
       /\ pc = "return" => returned' = all_results /\ pc' = "done"]_vars

\* search_by_validation_ids went through a batch long enough to pause and
\* returned what it found
C15_Witness ==
  /\ op = "search_by_validation_ids"
  /\ pc = "done"
  /\ pauses = REQUESTS_PER_MINUTE_LIMIT
  /\ Len(returned) = 1
\* every record of the list carries a LEI of the set
AllSeen(results, leis) ==
  /\ results # <<>>
  /\ \A k \in 1..Len(results) : LeiOfRaw(results[k]) \in leis

\* the stage that follows the request tagged `tag` for the name when nothing
\* has been found: step 2 when the cleaned name differs, step 3 when the
\* cleaned name has more than two words
StageAfter(tag, name) ==
  LET cleaned == clean_legal_name(name)
      step3 == IF Len(Split(cleaned)) > 2 THEN "substring" ELSE "loop_end"
  IN  CASE tag = "exact" -> (IF cleaned # Upper(name) THEN "cleaned" ELSE step3)
        [] tag = "cleaned" -> step3
        [] OTHER -> "loop_end"

\* C16: in search_by_names a request that returns only records whose LEIs are
\* already in the seen set adds nothing and leaves the name not found, and the
\* following stages are still attempted for that name, subject to their own
\* tests.
C16_SeenHitIsNoFind ==
  [][(IsNames /\ RequestStep /\ pc' # "raised"
        /\ AllSeen(response'.results, seen_leis)) =>
       /\ all_results' = all_results
       /\ seen_leis' = seen_leis
       /\ found' = FALSE
       /\ LastIssued'.added = 0
       /\ pc' = StageAfter(LastIssued'.tag, queries[i])]_vars

\* the second name's exact request added nothing, its cleaned request was
\* issued all the same and brought back only the LEI the first name had
\* surfaced
C16_Witness ==
  /\ IsNames
  /\ i = 2
  /\ Len(issued) = 2
  /\ issued[1].tag = "exact"
  /\ issued[1].added = 0
  /\ issued[2].tag = "cleaned"
  /\ Len(all_results) = 1
  /\ seen_leis = {Str("L1")}
  /\ AllSeen(response.results, seen_leis)
\* the responses that are hits, empty results, HTTP errors or transport
\* failures
ListedKinds == {"ok", "http", "transport"}

\* C17: every batch call runs through its whole input list, whatever the
\* responses (hits, empty results, HTTP errors, transport failures): no
\* response of these kinds makes the call leave before the last item, the
\* two identifier operations issue exactly one request per item and
\* search_by_names between one and three.
C17_RunsToCompletion ==
  /\ (pc = "raised" => response.kind \notin ListedKinds)
  /\ (pc = "loop_end" /\ ~IsNames) => Len(issued) = 1
  /\ (pc = "loop_end" /\ IsNames) => Len(issued) \in 1..3
  /\ pc = "done" => i = Len(queries)

\* the request counts alone, at the end of each item that was completed
C17_RequestsPerItem ==
  /\ (pc = "loop_end" /\ ~IsNames) => Len(issued) = 1
  /\ (pc = "loop_end" /\ IsNames) => Len(issued) \in 1..3
  /\ pc = "done" => i = Len(queries)
\* C18: for a single name search_by_names never issues the same query string
\* twice: the queries of the stages issued for that name are pairwise
\* different.
C18_QueriesPairwiseDifferent ==
  IsNames =>
    \A j, k \in 1..Len(issued) : j # k => issued[j].query # issued[k].query

\* C19: every request of search_by_names carries a non-empty query string,
\* for every name of at least 3 characters after trimming; the cleaned-stage
\* query is never the empty string.
C19_QueryNeverEmpty ==
  (IsNames /\ i \in 1..Len(queries) /\ Len(Strip(queries[i])) >= 3) =>
    \A j \in 1..Len(issued) : issued[j].query # <<>>

\* C20: in search_by_names with more than 60 names at most one request is
\* issued between two consecutive pauses (issued holds the requests made
\* since the pause that preceded the current name).
C20_OneRequestBetweenPauses ==
  (IsNames /\ Len(queries) > REQUESTS_PER_MINUTE_LIMIT) => Len(issued) <= 1

====
